---- MODULE Spec2Model ----
(***************************************************************************)
(* Model of the /generate handler of src/main.py (generate_roadmap): the   *)
(* call to the text-generation client, the extraction of the text from    *)
(* the response, the clean-up of the Mermaid code, the validation gate,   *)
(* the call to Kroki and the result that is returned.                     *)
(*                                                                         *)
(* A Python str is a sequence of one-character strings, so that strip,    *)
(* replace, split, join, startswith, "in" and slicing are computed        *)
(* character by character as Python computes them.                        *)
(***************************************************************************)
EXTENDS Integers, Sequences, FiniteSets, TLC

VARIABLES
    pc,              \* the handler's position: generate, extract, clean, render, done
    response,        \* what client.models.generate_content returned
    mermaid_code,    \* the local of that name
    kroki_request,   \* the diagram_source posted to Kroki
    kroki_response,  \* what requests.post returned
    result,          \* the value the handler returns
    calls,           \* the collaborator calls made so far, in order
    raised           \* the exception that reached the outer except clause

vars == <<pc, response, mermaid_code, kroki_request, kroki_response, result, calls, raised>>

(***************************************************************************)
(* Bounds of the model.                                                    *)
(***************************************************************************)
\* longest model text, counted in fragments of Fragments
MaxFrags == 3
\* most parts of the first candidate's content
MaxParts == 2

(***************************************************************************)
(* Python str operations.                                                  *)
(***************************************************************************)
Min(a, b) == IF a <= b THEN a ELSE b

\* the characters str.strip() removes (among those the model uses)
Whitespace == {" ", "\n", "\t"}

\* s[:n]
Take(s, n) == SubSeq(s, 1, Min(n, Len(s)))

\* s[n:]
Drop(s, n) == SubSeq(s, Min(n, Len(s)) + 1, Len(s))

\* s.startswith(p)
StartsWith(s, p) == Len(s) >= Len(p) /\ SubSeq(s, 1, Len(p)) = p

\* p in s
Contains(s, p) == \E i \in 0..(Len(s) - Len(p)) : SubSeq(s, i + 1, i + Len(p)) = p

\* c in s, for one character c
HasChar(s, c) == \E i \in 1..Len(s) : s[i] = c

RECURSIVE LStrip(_)
LStrip(s) == IF s # <<>> /\ Head(s) \in Whitespace THEN LStrip(Tail(s)) ELSE s

RECURSIVE RStrip(_)
RStrip(s) ==
    IF s # <<>> /\ s[Len(s)] \in Whitespace THEN RStrip(SubSeq(s, 1, Len(s) - 1)) ELSE s

\* s.strip()
Strip(s) == RStrip(LStrip(s))

\* s.replace(old, new): the leftmost non-overlapping occurrences, old not empty
RECURSIVE Replace(_, _, _)
Replace(s, old, new) ==
    IF Len(s) < Len(old) THEN s
    ELSE IF StartsWith(s, old) THEN new \o Replace(Drop(s, Len(old)), old, new)
    ELSE <<Head(s)>> \o Replace(Tail(s), old, new)

\* s.split('\n'): always at least one line
RECURSIVE Split(_)
Split(s) ==
    IF \A i \in 1..Len(s) : s[i] # "\n" THEN <<s>>
    ELSE LET k == CHOOSE i \in 1..Len(s) : s[i] = "\n" /\ \A j \in 1..(i - 1) : s[j] # "\n"
         IN  <<SubSeq(s, 1, k - 1)>> \o Split(Drop(s, k))

\* '\n'.join(lines)
RECURSIVE Join(_)
Join(lines) ==
    IF lines = <<>> THEN <<>>
    ELSE IF Len(lines) = 1 THEN lines[1]
    ELSE lines[1] \o <<"\n">> \o Join(Tail(lines))

\* ''.join(parts)
RECURSIVE Concat(_)
Concat(parts) == IF parts = <<>> THEN <<>> ELSE Head(parts) \o Concat(Tail(parts))

UpperCase == <<"A", "B", "C", "D", "E", "F", "G", "H", "I", "J", "K", "L", "M",
               "N", "O", "P", "Q", "R", "S", "T", "U", "V", "W", "X", "Y", "Z">>
LowerCase == <<"a", "b", "c", "d", "e", "f", "g", "h", "i", "j", "k", "l", "m",
               "n", "o", "p", "q", "r", "s", "t", "u", "v", "w", "x", "y", "z">>

\* s.lower()
Lower(s) ==
    [i \in 1..Len(s) |->
        IF \E k \in 1..26 : UpperCase[k] = s[i]
        THEN LowerCase[CHOOSE k \in 1..26 : UpperCase[k] = s[i]]
        ELSE s[i]]

(***************************************************************************)
(* The literals of generate_roadmap.                                       *)
(***************************************************************************)
graph == <<"g", "r", "a", "p", "h">>
graph_TD == graph \o <<" ", "T", "D">>
graph_LR == graph \o <<" ", "L", "R">>
\* the backquote character, named: the lexer accepts no backquote inside a string
Backquote == "BACKQUOTE"
fence == <<Backquote, Backquote, Backquote>>
fence_mermaid == fence \o <<"m", "e", "r", "m", "a", "i", "d">>
syntax == <<"s", "y", "n", "t", "a", "x">>
\* the slices [:300] of raw and details
SliceLimit == 300

(***************************************************************************)
(* Python values: None, a str, an object that is neither (truthy, with no  *)
(* str methods), an attribute that does not exist, an attribute whose      *)
(* read raises.                                                            *)
(***************************************************************************)
None == [kind |-> "none"]
Str(s) == [kind |-> "str", val |-> s]
Other == [kind |-> "other"]
Absent == [kind |-> "absent"]
Raises == [kind |-> "raises"]

\* bool(v) of a value
Truthy(v) == v.kind = "other" \/ (v.kind = "str" /\ v.val # <<>>)

(***************************************************************************)
(* Extraction of the text from the response.                               *)
(***************************************************************************)
\* the parts kept by "if hasattr(part, 'text') and part.text"
TruthyParts(parts) == SelectSeq(parts, LAMBDA part : Truthy(part.text))

\* the except branch of the extraction: the text of the first candidate's
\* parts; any exception raised here is caught and leaves mermaid_code None
Method2(resp) ==
    LET c == resp.candidates IN
    IF c.kind # "list" \/ c.val = <<>> THEN None
    ELSE LET candidate == c.val[1] IN
         IF candidate.content.kind # "content" \/ candidate.content.parts = <<>> THEN None
         ELSE LET text_parts == TruthyParts(candidate.content.parts) IN
              IF text_parts = <<>> THEN None
              ELSE IF \E i \in 1..Len(text_parts) : text_parts[i].text.kind # "str"
                   THEN None
                   ELSE Str(Concat([i \in 1..Len(text_parts) |-> text_parts[i].text.val]))

\* mermaid_code after the extraction: response.text when hasattr finds it,
\* the candidates only when reading response.text raises
ExtractText(resp) ==
    IF resp.text.kind = "raises" THEN Method2(resp)
    ELSE IF resp.text.kind = "absent" THEN None
    ELSE resp.text

(***************************************************************************)
(* Cleaning of the Mermaid code.                                           *)
(***************************************************************************)
\* strip, remove the fences, strip
StripFences(s) == Strip(Replace(Replace(Strip(s), fence_mermaid, <<>>), fence, <<>>))

\* "Find where graph starts"
FindGraphStart(s) ==
    IF StartsWith(s, graph) THEN s
    ELSE LET lines == Split(s)
             found == {i \in 1..Len(lines) : StartsWith(Strip(lines[i]), graph)}
         IN  IF found = {} THEN s
             ELSE LET i == CHOOSE k \in found : \A j \in found : k <= j
                  IN  Join(SubSeq(lines, i, Len(lines)))

\* CleanLine with the test of the closing bracket forgotten
CleanLine_OpenBracketOnly(line) ==
    IF HasChar(line, "[") THEN Replace(line, <<":">>, <<" ", "-">>) ELSE line

\* the cleaned_line of one line
CleanLine(line) ==
    IF HasChar(line, "[") /\ HasChar(line, "]")
    THEN Replace(line, <<":">>, <<" ", "-">>)
    ELSE line

\* the rewrite of the colons, line by line
CleanLines(s) ==
    LET lines == Split(s)
    IN  Join([i \in 1..Len(lines) |-> CleanLine(lines[i])])

\* mermaid_code when the validation gate is reached
CleanCode(s) == CleanLines(FindGraphStart(StripFences(s)))

\* ValidGraph with the graph type forgotten
ValidGraph_AnyGraph(s) == Contains(s, graph)

\* the validation gate
ValidGraph(s) == Contains(s, graph_TD) \/ Contains(s, graph_LR)

(***************************************************************************)
(* The results the handler returns.                                        *)
(***************************************************************************)
NoResult == [returned |-> FALSE]
CouldNotGenerate == [error |-> "Could not generate content"]
NoValidGraph(code) == [error |-> "No valid graph found", raw |-> Take(code, SliceLimit)]
ServerError(msg) == [error |-> "Server error: " \o msg]
SyntaxErrorMessage == "The generated diagram has syntax errors. Try a simpler request."
GenericErrorMessage == "Diagram rendering failed"

\* RenderResult with every 2xx status taken for a success
RenderResult_Any2xx(code, kr) ==
    IF kr.status_code < 300
    THEN [mermaid |-> code, svg |-> kr.text, success |-> TRUE]
    ELSE IF Contains(Lower(kr.text), syntax)
         THEN [error |-> SyntaxErrorMessage, mermaid |-> code,
               details |-> Take(kr.text, SliceLimit)]
         ELSE [error |-> GenericErrorMessage, mermaid |-> code,
               details |-> Take(kr.text, SliceLimit)]

\* RenderResult with the test for "syntax" made on the body as it is
RenderResult_CaseSensitive(code, kr) ==
    IF kr.status_code = 200
    THEN [mermaid |-> code, svg |-> kr.text, success |-> TRUE]
    ELSE IF Contains(kr.text, syntax)
         THEN [error |-> SyntaxErrorMessage, mermaid |-> code,
               details |-> Take(kr.text, SliceLimit)]
         ELSE [error |-> GenericErrorMessage, mermaid |-> code,
               details |-> Take(kr.text, SliceLimit)]

\* the result for a response of Kroki
RenderResult(code, kr) ==
    IF kr.status_code = 200
    THEN [mermaid |-> code, svg |-> kr.text, success |-> TRUE]
    ELSE IF Contains(Lower(kr.text), syntax)
         THEN [error |-> SyntaxErrorMessage, mermaid |-> code,
               details |-> Take(kr.text, SliceLimit)]
         ELSE [error |-> GenericErrorMessage, mermaid |-> code,
               details |-> Take(kr.text, SliceLimit)]

(***************************************************************************)
(* The inputs: what the two collaborators may answer.                      *)
(***************************************************************************)
preamble == <<"H", "e", "r", "e", ":", "\n">>
Fragments ==
    {graph_TD, graph_LR, graph, fence_mermaid, fence, preamble,
     <<":">>, <<"[">>, <<"]">>, <<" ">>, <<"\n">>, <<"x">>}

ex_fenced == <<Backquote, Backquote, Backquote, "m", "e", "r", "m", "a", "i", "d", "\n", "g", "r", "a", "p", "h", " ", "T", "D", "\n", " ", " ", "A", "[", "S", "t", "a", "r", "t", ":", " ", "H", "e", "r", "e", "]", " ", "-", "-", ">", " ", "B", "[", "E", "n", "d", "]", "\n", Backquote, Backquote, Backquote>>
ex_clean == <<"g", "r", "a", "p", "h", " ", "T", "D", "\n", " ", " ", "A", "[", "S", "t", "a", "r", "t", " ", "-", " ", "H", "e", "r", "e", "]", " ", "-", "-", ">", " ", "B", "[", "E", "n", "d", "]">>
ex_e2e == <<"g", "r", "a", "p", "h", " ", "T", "D", "\n", " ", "A", "[", "S", "t", "a", "r", "t", "]", " ", "-", "-", ">", " ", "B", "[", "E", "n", "d", "]">>

\* the texts of the model: up to MaxFrags fragments, and the examples
Texts ==
    {Concat(f) : f \in UNION {[1..n -> Fragments] : n \in 0..MaxFrags}}
        \cup {ex_fenced, ex_e2e}

\* the text of one part
PartTexts == {None, Absent, Other, Str(<<>>), Str(graph_TD), Str(<<"\n", "A", "[", "x", "]">>)}
Parts == {[text |-> t] : t \in PartTexts}
PartSeqs == UNION {[1..n -> Parts] : n \in 0..MaxParts}

Candidates ==
    {Absent, None, [kind |-> "list", val |-> <<>>],
     [kind |-> "list", val |-> <<[content |-> None]>>]}
        \cup {[kind |-> "list", val |-> <<[content |-> [kind |-> "content", parts |-> ps]]>>]
                : ps \in PartSeqs}

\* a response with a direct text and no candidates, or a response whose
\* text is missing, empty, not a str or unreadable, with candidates
Responses ==
    {[text |-> Str(t), candidates |-> None] : t \in Texts}
        \cup {[text |-> t, candidates |-> c]
                : t \in {None, Absent, Raises, Other, Str(<<>>), Str(<<"x">>)},
                  c \in Candidates}

svg == <<"<", "s", "v", "g", "/", ">">>
syntax_error_on_line_2 == <<"S", "y", "n", "t", "a", "x", " ", "e", "r", "r", "o", "r", " ", "o", "n", " ", "l", "i", "n", "e", " ", "2">>
sin_tax == <<"s", "i", "n", " ", "t", "a", "x">>
Padding(n) == [i \in 1..n |-> "e"]

\* the answers of Kroki: a status and a body
KrokiResponses ==
    {[status_code |-> 200, text |-> svg],
     [status_code |-> 200, text |-> syntax],
     [status_code |-> 201, text |-> svg],
     [status_code |-> 400, text |-> syntax_error_on_line_2],
     [status_code |-> 400, text |-> <<"S", "Y", "N", "T", "A", "X">>],
     [status_code |-> 400, text |-> sin_tax],
     [status_code |-> 500, text |-> Padding(SliceLimit - 2) \o syntax_error_on_line_2],
     [status_code |-> 503, text |-> <<>>]}

\* the messages of the exceptions the collaborators raise
GenerateErrors == {"429 RESOURCE_EXHAUSTED"}
PostErrors == {"Read timed out. (read timeout=20)"}
StripError == "'int' object has no attribute 'strip'"

(***************************************************************************)
(* The handler, one action per stretch between two collaborator calls.     *)
(***************************************************************************)
Init ==
    /\ pc = "generate"
    /\ response = None
    /\ mermaid_code = None
    /\ kroki_request = None
    /\ kroki_response = None
    /\ result = NoResult
    /\ calls = <<>>
    /\ raised = None

\* Except with the exception raised again instead of a result returned
Except_Propagates(msg) ==
    /\ raised' = [kind |-> "exception", msg |-> msg]
    /\ result' = NoResult
    /\ pc' = "done"

\* the outer except clause
Except(msg) ==
    /\ raised' = [kind |-> "exception", msg |-> msg]
    /\ result' = ServerError(msg)
    /\ pc' = "done"

\* client.models.generate_content returns
GenerateContent ==
    /\ pc = "generate"
    /\ \E r \in Responses : response' = r
    /\ calls' = Append(calls, "generate_content")
    /\ pc' = "extract"
    /\ UNCHANGED <<mermaid_code, kroki_request, kroki_response, result, raised>>

\* client.models.generate_content raises
GenerateContentRaises ==
    /\ pc = "generate"
    /\ calls' = Append(calls, "generate_content")
    /\ \E msg \in GenerateErrors : Except(msg)
    /\ UNCHANGED <<response, mermaid_code, kroki_request, kroki_response>>

\* the extraction, and the return when it found no text
Extract ==
    /\ pc = "extract"
    /\ mermaid_code' = ExtractText(response)
    /\ IF Truthy(mermaid_code')
       THEN pc' = "clean" /\ UNCHANGED result
       ELSE pc' = "done" /\ result' = CouldNotGenerate
    /\ UNCHANGED <<response, kroki_request, kroki_response, calls, raised>>

\* the cleaning and the validation gate
Clean ==
    /\ pc = "clean"
    /\ IF mermaid_code.kind # "str"
       THEN /\ Except(StripError)
            /\ UNCHANGED mermaid_code
       ELSE /\ mermaid_code' = Str(CleanCode(mermaid_code.val))
            /\ IF ValidGraph(mermaid_code'.val)
               THEN pc' = "render" /\ UNCHANGED result
               ELSE pc' = "done" /\ result' = NoValidGraph(mermaid_code'.val)
            /\ UNCHANGED raised
    /\ UNCHANGED <<response, kroki_request, kroki_response, calls>>

\* requests.post returns, and the result made of its answer
Post ==
    /\ pc = "render"
    /\ kroki_request' = mermaid_code
    /\ calls' = Append(calls, "post")
    /\ \E kr \in KrokiResponses :
        /\ kroki_response' = kr
        /\ result' = RenderResult(mermaid_code.val, kr)
    /\ pc' = "done"
    /\ UNCHANGED <<response, mermaid_code, raised>>

\* PostRaises with the call made again after the failure
PostRaises_Retries ==
    /\ pc = "render"
    /\ kroki_request' = mermaid_code
    /\ calls' = Append(calls, "post")
    /\ UNCHANGED <<pc, response, mermaid_code, kroki_response, result, raised>>

\* requests.post raises (the timeout, a connection error)
PostRaises ==
    /\ pc = "render"
    /\ kroki_request' = mermaid_code
    /\ calls' = Append(calls, "post")
    /\ \E msg \in PostErrors : Except(msg)
    /\ UNCHANGED <<response, mermaid_code, kroki_response>>

Next ==
    \/ GenerateContent
    \/ GenerateContentRaises
    \/ Extract
    \/ Clean
    \/ Post
    \/ PostRaises

Spec == Init /\ [][Next]_vars

(***************************************************************************)
(* What the claims speak of, stated apart from the operators above.        *)
(***************************************************************************)
\* the handler has returned
Returned == pc = "done"

\* the text the extraction gave, once a response has come
Extracted == ExtractText(response)

\* the Kroki call has been made
Posted == \E i \in 1..Len(calls) : calls[i] = "post"

\* the cleaning has run on an extracted str
Cleaned == pc = "render" \/ (pc = "done" /\ ("raw" \in DOMAIN result \/ Posted))

\* s contains "graph TD" or "graph LR"
HasGraphType(s) ==
    \E i \in 1..(Len(s) - 7) :
        /\ SubSeq(s, i, i + 5) = <<"g", "r", "a", "p", "h", " ">>
        /\ <<s[i + 6], s[i + 7]>> \in {<<"T", "D">>, <<"L", "R">>}

\* the first n characters of s
IsPrefixOfLength(d, s, n) ==
    /\ Len(d) = IF Len(s) < n THEN Len(s) ELSE n
    /\ \A i \in 1..Len(d) : d[i] = s[i]

\* "syntax" occurs in s in any letter case
HasSyntaxAnyCase(s) ==
    \E i \in 0..(Len(s) - 6) :
        /\ s[i + 1] \in {"s", "S"} /\ s[i + 2] \in {"y", "Y"} /\ s[i + 3] \in {"n", "N"}
        /\ s[i + 4] \in {"t", "T"} /\ s[i + 5] \in {"a", "A"} /\ s[i + 6] \in {"x", "X"}

\* the line with " -" in the place of every colon
ColonsRewritten(line) ==
    Concat([j \in 1..Len(line) |-> IF line[j] = ":" THEN <<" ", "-">> ELSE <<line[j]>>])

\* the direct text of the response is empty or absent, and reading it does not raise
NoDirectText == response.text \in {None, Absent, Str(<<>>)}

\* the non-empty texts of the parts of the first candidate, in order
FirstCandidatePartTexts ==
    IF response.candidates.kind = "list" /\ response.candidates.val # <<>>
       /\ response.candidates.val[1].content.kind = "content"
    THEN LET parts == response.candidates.val[1].content.parts
             kept == SelectSeq(parts, LAMBDA q : q.text.kind = "str" /\ q.text.val # <<>>)
         IN  [i \in 1..Len(kept) |-> kept[i].text.val]
    ELSE <<>>

\* no line of the fence-stripped text starts, once trimmed, with "graph"
NoGraphLine(s) ==
    LET lines == Split(s)
    IN  \A i \in 1..Len(lines) : ~StartsWith(Strip(lines[i]), graph)

(***************************************************************************)
(* The claims.                                                             *)
(***************************************************************************)
\* C1: when the direct text of the response is empty or absent and the first
\* candidate has at least one non-empty part text, the extraction yields the
\* concatenation of the non-empty part texts in order, and the handler does
\* not return "Could not generate content".
C1_ExtractionFallback ==
    (pc # "generate" /\ pc # "extract" /\ response # None
        /\ NoDirectText /\ FirstCandidatePartTexts # <<>>)
    => /\ result # CouldNotGenerate
       /\ pc = "clean" => mermaid_code = Str(Concat(FirstCandidatePartTexts))

\* C2: cleaning a text that passed the validation gate a second time gives
\* the same text: sanitize(sanitize(x)) = sanitize(x).
C2_SanitizerIdempotent ==
    pc = "render" => CleanCode(mermaid_code.val) = mermaid_code.val

\* C3: every text that passes the validation gate, and so is sent to Kroki or
\* returned as 'mermaid', starts with "graph" at its first character.
C3_StartsWithGraph ==
    /\ pc = "render" => StartsWith(mermaid_code.val, graph)
    /\ kroki_request # None => StartsWith(kroki_request.val, graph)
    /\ "mermaid" \in DOMAIN result => StartsWith(result.mermaid, graph)

\* C4: Kroki is called only with a text that contains "graph TD" or
\* "graph LR", and the text it is called with is the handler's mermaid_code.
C4_RenderOnlyValidGraph ==
    /\ Posted => kroki_request # None
    /\ kroki_request # None =>
        /\ kroki_request.kind = "str"
        /\ HasGraphType(kroki_request.val)

C4_Witness ==
    /\ Posted
    /\ response.text = Str(ex_fenced)
    /\ kroki_request = Str(ex_clean)

\* C5: when the extracted text, stripped and with its fences removed, has no
\* line whose trimmed content starts with "graph", the handler returns
\* "No valid graph found" with the first 300 characters of the cleaned text
\* as raw, and Kroki is not called.
C5_NoGraphLineRejected ==
    (pc \in {"render", "done"} /\ response # None /\ Extracted.kind = "str"
        /\ Extracted.val # <<>> /\ NoGraphLine(StripFences(Extracted.val)))
    => /\ pc = "done"
       /\ ~Posted
       /\ DOMAIN result = {"error", "raw"}
       /\ result.error = "No valid graph found"
       /\ IsPrefixOfLength(result.raw, CleanLines(StripFences(Extracted.val)), 300)

\* C6: the handler always ends by returning a structured result: it is at
\* one of its steps until it returns, the returned value has an 'error' or a
\* 'success' field, and when a collaborator call or a step between them
\* raised, the exception went no further than the outer except clause and
\* the result is exactly {error: "Server error: <message>"}.
C6_AlwaysStructuredResult ==
    /\ pc \in {"generate", "extract", "clean", "render", "done"}
    /\ ~Returned => result = NoResult /\ raised = None
    /\ Returned => ("error" \in DOMAIN result \/ "success" \in DOMAIN result)
    /\ raised # None =>
        /\ Returned
        /\ result = [error |-> "Server error: " \o raised.msg]

C6_Witness ==
    /\ Returned
    /\ calls = <<"generate_content", "post">>
    /\ raised # None
    /\ result = [error |-> "Server error: Read timed out. (read timeout=20)"]

\* C7: the handler returns success: true exactly when Kroki answered 200,
\* and then 'mermaid' is the text that was sent to Kroki, 'svg' is the body
\* of the answer and there is no 'error' field.
C7_SuccessIff200 ==
    Returned =>
        /\ ("success" \in DOMAIN result /\ result.success = TRUE)
            <=> (kroki_response # None /\ kroki_response.status_code = 200)
        /\ "success" \in DOMAIN result =>
            /\ DOMAIN result = {"mermaid", "svg", "success"}
            /\ result.mermaid = kroki_request.val
            /\ result.svg = kroki_response.text

C7_Witness ==
    /\ Returned
    /\ response # None
    /\ response.text = Str(ex_e2e)
    /\ result = [success |-> TRUE, mermaid |-> ex_e2e, svg |-> svg]

\* C8: for an answer of Kroki with a status other than 200 the handler
\* returns an error whose 'mermaid' is the text sent, whose 'details' is the
\* first 300 characters of the body, and whose message is the syntax one
\* exactly when the body contains "syntax" in any letter case, the generic
\* "Diagram rendering failed" otherwise.
C8_Non200IsError ==
    (Returned /\ kroki_response # None /\ kroki_response.status_code # 200) =>
        /\ DOMAIN result = {"error", "mermaid", "details"}
        /\ result.mermaid = kroki_request.val
        /\ IsPrefixOfLength(result.details, kroki_response.text, 300)
        /\ result.error =
            IF HasSyntaxAnyCase(kroki_response.text)
            THEN "The generated diagram has syntax errors. Try a simpler request."
            ELSE "Diagram rendering failed"

C8_Witness ==
    /\ Returned
    /\ kroki_response # None
    /\ kroki_response.status_code = 500
    /\ Len(kroki_response.text) > 300
    /\ ~HasSyntaxAnyCase(result.details)
    /\ result.error = "The generated diagram has syntax errors. Try a simpler request."

\* C9: the rewrite of the colons keeps the number and the order of the
\* lines; a line with both '[' and ']' comes out with " -" in the place of
\* every ':', any other line comes out unchanged; and the fenced example
\* cleans to "graph TD\n  A[Start - Here] --> B[End]".
C9_ColonRewrite ==
    Cleaned =>
        LET before == Split(FindGraphStart(StripFences(Extracted.val)))
            after == Split(mermaid_code.val)
        IN  /\ Len(after) = Len(before)
            /\ \A i \in 1..Len(before) :
                IF HasChar(before[i], "[") /\ HasChar(before[i], "]")
                THEN after[i] = ColonsRewritten(before[i]) /\ ~HasChar(after[i], ":")
                ELSE after[i] = before[i]
            /\ response.text = Str(ex_fenced) => mermaid_code.val = ex_clean

C9_Witness ==
    /\ pc = "render"
    /\ response.text = Str(ex_fenced)
    /\ mermaid_code = Str(ex_clean)

\* C10: in one request the text generation is called exactly once and first,
\* Kroki at most once and never again after a failure; Kroki is called only
\* after the generation returned, the extraction gave a non-empty text and
\* the cleaned text passed the gate; a result is determined only as the
\* handler returns, so that no call follows it.
C10_CallOrdering ==
    /\ calls \in {<<>>, <<"generate_content">>, <<"generate_content", "post">>}
    /\ pc # "generate" => calls # <<>>
    /\ Posted =>
        /\ response # None
        /\ Truthy(Extracted)
        /\ HasGraphType(kroki_request.val)
    /\ result # NoResult => Returned
    /\ Returned /\ ~Posted => kroki_request = None /\ kroki_response = None

C10_Witness ==
    /\ Returned
    /\ calls = <<"generate_content", "post">>
    /\ "error" \in DOMAIN result
    /\ raised # None

====
